---- MODULE Spec2Model ----
(***************************************************************************)
(* Model of the weak lang item pass                                        *)
(* (compiler/rustc_passes/src/weak_lang_items.rs): check_crate injects the *)
(* compiler-generated items, scans the foreign items of the crate, and     *)
(* verify reports the weak lang items that are still missing.              *)
(***************************************************************************)
EXTENDS Integers, Sequences, FiniteSets, TLC

\* Bounds of the model.
MaxItems == 2      \* foreign items of the crate being checked
NumDeps == 2       \* upstream crates returned by tcx.crates(())

None == "None"

Range(s) == {s[i] : i \in DOMAIN s}

SeqsUpTo(S, n) == UNION {[1..k -> S] : k \in 0..n}

\* LangItem values the pass handles.
Hooks == {"PanicImpl", "EhPersonality", "EhCatchTypeinfo", "Oom"}

\* rustc_hir::weak_lang_items::WEAK_ITEMS_REFS: name -> LangItem, in a fixed
\* iteration order.
WEAK_ITEMS_REFS ==
    << [name |-> "panic_impl",        item |-> "PanicImpl"],
       [name |-> "eh_personality",    item |-> "EhPersonality"],
       [name |-> "eh_catch_typeinfo", item |-> "EhCatchTypeinfo"],
       [name |-> "oom",               item |-> "Oom"] >>

WeakNames == {WEAK_ITEMS_REFS[i].name : i \in DOMAIN WEAK_ITEMS_REFS}

\* WEAK_ITEMS_REFS.get(&lang_item)
WeakGet(lang_item) ==
    IF lang_item \in WeakNames
    THEN LET i == CHOOSE j \in DOMAIN WEAK_ITEMS_REFS :
                      WEAK_ITEMS_REFS[j].name = lang_item
         IN WEAK_ITEMS_REFS[i].item
    ELSE None

\* lang_items::extract(attrs): the name of the lang attribute, if any.
\* A foreign item is modelled by its attributes: [lang |-> name or None].
extract(attrs) == attrs.lang

\* items.require(item).is_err(): the item has no definition in the table.
require_is_err(defined, item) == item \notin defined

\* required(tcx, item): mandatory unless the configuration relaxes it.
required(relaxed, item) == item \notin relaxed

CrateType == {"Executable", "Dylib", "Rlib", "Staticlib", "Cdylib", "ProcMacro"}

\* Diagnostics: kind plus the name the diagnostic carries (None when the
\* diagnostic has no field).
Diag(kind, name) == [kind |-> kind, name |-> name]

MissingKinds == {"MissingPanicHandler", "MissingAllocErrorHandler", "MissingLangItem"}

(***************************************************************************)
(* check_crate, lines 19-24: implicit injection.                           *)
(***************************************************************************)
InjectImplicit_NoOsTest(target_os, defined, m) ==
    LET m1 == IF "EhPersonality" \notin defined
              THEN Append(m, "EhPersonality") ELSE m
    IN IF "EhCatchTypeinfo" \notin defined
       THEN Append(m1, "EhCatchTypeinfo") ELSE m1

InjectImplicit(target_os, defined, m) ==
    LET m1 == IF "EhPersonality" \notin defined
              THEN Append(m, "EhPersonality") ELSE m
    IN IF target_os = "emscripten" /\ "EhCatchTypeinfo" \notin defined
       THEN Append(m1, "EhCatchTypeinfo") ELSE m1

(***************************************************************************)
(* check_crate, lines 28-45: the body of the loop over foreign items.      *)
(* st = [missing, diags, stop]; stop is never set by the code (the loop    *)
(* has no break or return).                                                *)
(***************************************************************************)
ScanForeignItem_StopOnUnknown(attrs, defined, st) ==
    LET lang_item == extract(attrs) IN
    IF lang_item = None THEN st
    ELSE LET item == WeakGet(lang_item) IN
         IF item # None
         THEN IF require_is_err(defined, item)
              THEN [st EXCEPT !.missing = Append(@, item)]
              ELSE st
         ELSE [st EXCEPT !.diags = Append(@, Diag("E0264", lang_item)),
                         !.stop = TRUE]

ScanForeignItem(attrs, defined, st) ==
    LET lang_item == extract(attrs) IN
    IF lang_item = None THEN st
    ELSE LET item == WeakGet(lang_item) IN
         IF item # None
         THEN IF require_is_err(defined, item)
              THEN [st EXCEPT !.missing = Append(@, item)]
              ELSE st
         ELSE [st EXCEPT !.diags = Append(@, Diag("E0264", lang_item))]

\* The local phase of check_crate run to completion (lines 19-46): what an
\* upstream crate computed and published as its missing lang items.
RECURSIVE ScanAll(_, _, _, _)
ScanAll(foreign, i, defined, st) ==
    IF i > Len(foreign) \/ st.stop THEN st
    ELSE ScanAll(foreign, i + 1, defined, ScanForeignItem(foreign[i], defined, st))

\* tcx.missing_lang_items(cnum)
missing_lang_items(target_os, dep) ==
    ScanAll(dep.foreign_items, 1, dep.defined,
            [missing |-> InjectImplicit(target_os, dep.defined, <<>>),
             diags |-> <<>>, stop |-> FALSE]).missing

(***************************************************************************)
(* verify, lines 54-61.                                                    *)
(***************************************************************************)
KindNeedsCheck(kind) ==
    CASE kind = "Dylib" -> TRUE
      [] kind = "ProcMacro" -> TRUE
      [] kind = "Cdylib" -> TRUE
      [] kind = "Executable" -> TRUE
      [] kind = "Staticlib" -> TRUE
      [] kind = "Rlib" -> FALSE

needs_check_All(kinds) == \A kind \in kinds : KindNeedsCheck(kind)

needs_check_Always(kinds) == TRUE

needs_check(kinds) == \E kind \in kinds : KindNeedsCheck(kind)

(***************************************************************************)
(* verify, lines 66-71: the set of items some upstream crate misses.       *)
(***************************************************************************)
CollectMissing(target_os, deps) ==
    UNION {Range(missing_lang_items(target_os, deps[i])) : i \in DOMAIN deps}

(***************************************************************************)
(* verify, lines 74-84: the body of the loop over WEAK_ITEMS_REFS.         *)
(***************************************************************************)
VerifyItem_Generic(e, missingSet, defined, relaxed, flag, d) ==
    IF e.item \in missingSet /\ required(relaxed, e.item)
       /\ require_is_err(defined, e.item)
    THEN Append(d, Diag("MissingLangItem", e.name))
    ELSE d

VerifyItem_NoFlag(e, missingSet, defined, relaxed, flag, d) ==
    IF e.item \in missingSet /\ required(relaxed, e.item)
       /\ require_is_err(defined, e.item)
    THEN IF e.item = "PanicImpl" THEN Append(d, Diag("MissingPanicHandler", None))
         ELSE IF e.item = "Oom"
              THEN Append(d, Diag("MissingAllocErrorHandler", None))
              ELSE Append(d, Diag("MissingLangItem", e.name))
    ELSE d

VerifyItem(e, missingSet, defined, relaxed, flag, d) ==
    IF e.item \in missingSet /\ required(relaxed, e.item)
       /\ require_is_err(defined, e.item)
    THEN IF e.item = "PanicImpl" THEN Append(d, Diag("MissingPanicHandler", None))
         ELSE IF e.item = "Oom"
              THEN IF ~flag THEN Append(d, Diag("MissingAllocErrorHandler", None))
                   ELSE d
              ELSE Append(d, Diag("MissingLangItem", e.name))
    ELSE d

RECURSIVE VerifyLoop_StopAtFirst(_, _, _, _, _, _)
VerifyLoop_StopAtFirst(i, missingSet, defined, relaxed, flag, d) ==
    IF i > Len(WEAK_ITEMS_REFS) THEN d
    ELSE LET d1 == VerifyItem(WEAK_ITEMS_REFS[i], missingSet, defined, relaxed, flag, d)
         IN IF Len(d1) > Len(d) THEN d1
            ELSE VerifyLoop_StopAtFirst(i + 1, missingSet, defined, relaxed, flag, d1)

RECURSIVE VerifyLoop(_, _, _, _, _, _)
VerifyLoop(i, missingSet, defined, relaxed, flag, d) ==
    IF i > Len(WEAK_ITEMS_REFS) THEN d
    ELSE VerifyLoop(i + 1, missingSet, defined, relaxed, flag,
                    VerifyItem(WEAK_ITEMS_REFS[i], missingSet, defined, relaxed, flag, d))

\* verify, lines 51-86.
verify(kinds, target_os, deps, defined, relaxed, flag, d) ==
    IF ~needs_check(kinds) THEN d
    ELSE VerifyLoop(1, CollectMissing(target_os, deps), defined, relaxed, flag, d)

(***************************************************************************)
(* State.                                                                  *)
(***************************************************************************)
VARIABLES
    pc,             \* position in check_crate: "inject", "scan", "verify", "done"
    os,             \* tcx.sess.target.os
    crate_types,    \* tcx.sess.crate_types()
    default_alloc_error_handler,   \* tcx.features().default_alloc_error_handler
    relaxed,        \* items the configuration makes non-mandatory (required)
    defined,        \* items with a definition in `items`
    missing,        \* items.missing
    foreign_items,  \* crate_items.foreign_items(), by their attributes
    idx,            \* next foreign item of the loop
    stopped,        \* the scan loop was left early (never, in the code)
    crates,         \* tcx.crates(()): the upstream crates
    diags           \* diagnostics emitted so far

vars == <<pc, os, crate_types, default_alloc_error_handler, relaxed, defined,
          missing, foreign_items, idx, stopped, crates, diags>>

config == <<os, crate_types, default_alloc_error_handler, relaxed, defined,
            foreign_items, crates>>

TargetOs == {"emscripten", "linux"}

\* Lang attributes a foreign item may carry.
AttrNames == {None, "panic_impl", "oom", "eh_personality", "eh_catch_typeinfo",
              "not_a_real_hook"}

ForeignItems == {[lang |-> n] : n \in AttrNames}

\* Upstream crates: the items each defines and the foreign items it declares.
Dep(d, names) == [defined |-> d, foreign_items |-> [i \in DOMAIN names |-> [lang |-> names[i]]]]

DepChoices ==
    { Dep({}, <<"panic_impl">>),
      Dep({}, <<"oom">>),
      Dep({"PanicImpl", "Oom"}, <<>>),
      Dep({"EhPersonality", "EhCatchTypeinfo"}, <<"eh_catch_typeinfo">>),
      Dep({"EhPersonality"}, <<"eh_catch_typeinfo">>),
      Dep({"EhPersonality", "EhCatchTypeinfo", "PanicImpl"}, <<"oom">>),
      Dep({"EhPersonality", "EhCatchTypeinfo"}, <<"panic_impl">>) }

InitCommon ==
    /\ pc = "inject"
    /\ missing = <<>>
    /\ idx = 1
    /\ stopped = FALSE
    /\ diags = <<>>
    /\ os \in TargetOs
    /\ default_alloc_error_handler \in BOOLEAN

\* Sessions that exercise the local phase.
Init ==
    /\ InitCommon
    /\ crate_types \in {{"Rlib"}, {"Executable"}, {"Rlib", "Dylib"}}
    /\ relaxed = {}
    /\ defined \in SUBSET Hooks
    /\ foreign_items \in SeqsUpTo(ForeignItems, MaxItems)
    /\ crates \in {<<>>, <<Dep({}, <<"panic_impl">>)>>, <<Dep({"PanicImpl", "Oom"}, <<>>)>>}

\* Sessions that exercise aggregation and validation.
InitVerify ==
    /\ InitCommon
    /\ crate_types \in {{"Rlib"}, {"Executable"}, {"Rlib", "Dylib"}}
    /\ relaxed \in {{}, {"EhPersonality", "EhCatchTypeinfo"}, {"Oom"}, {"PanicImpl"}}
    /\ defined \in SUBSET Hooks
    /\ foreign_items \in {<<>>, <<[lang |-> "panic_impl"]>>,
                          <<[lang |-> "oom"], [lang |-> "not_a_real_hook"]>>}
    /\ crates \in SeqsUpTo(DepChoices, NumDeps)

\* Sessions that exercise the artifact gate.
InitGate ==
    /\ InitCommon
    /\ crate_types \in (SUBSET CrateType) \ {{}}
    /\ relaxed = {}
    /\ defined \in {{}, {"PanicImpl", "EhPersonality"}}
    /\ foreign_items \in {<<>>, <<[lang |-> "not_a_real_hook"]>>}
    /\ crates \in {<<>>, <<Dep({}, <<"panic_impl">>)>>, <<Dep({}, <<"oom">>)>>}

\* check_crate, lines 19-24.
Inject ==
    /\ pc = "inject"
    /\ missing' = InjectImplicit(os, defined, missing)
    /\ pc' = "scan"
    /\ UNCHANGED <<config, idx, stopped, diags>>

\* check_crate, lines 27-46: one iteration of the loop, or its exit.
ScanItem ==
    /\ pc = "scan"
    /\ IF idx <= Len(foreign_items) /\ ~stopped
       THEN LET st == ScanForeignItem(foreign_items[idx], defined,
                         [missing |-> missing, diags |-> diags, stop |-> FALSE])
            IN /\ missing' = st.missing
               /\ diags' = st.diags
               /\ stopped' = st.stop
               /\ idx' = idx + 1
               /\ pc' = pc
       ELSE /\ pc' = "verify"
            /\ UNCHANGED <<missing, diags, stopped, idx>>
    /\ UNCHANGED config

\* check_crate, line 48: verify(tcx, items).
Verify ==
    /\ pc = "verify"
    /\ diags' = verify(crate_types, os, crates, defined, relaxed,
                       default_alloc_error_handler, diags)
    /\ pc' = "done"
    /\ UNCHANGED <<config, missing, idx, stopped>>

Next == Inject \/ ScanItem \/ Verify

Spec == Init /\ [][Next]_vars
SpecVerify == InitVerify /\ [][Next]_vars
SpecGate == InitGate /\ [][Next]_vars

(***************************************************************************)
(* Properties.                                                             *)
(***************************************************************************)
FinalKinds == {"Executable", "Dylib", "Cdylib", "Staticlib", "ProcMacro"}

GateOpen == crate_types \cap FinalKinds # {}

CountDiag(d) == Cardinality({i \in DOMAIN diags : diags[i] = d})

MissingDiags == {i \in DOMAIN diags : diags[i].kind \in MissingKinds}

NoUnitDefines(h) == h \notin defined /\ \A i \in DOMAIN crates : h \notin crates[i].defined

SomeDepDefines(h) == \E i \in DOMAIN crates : h \in crates[i].defined

ListedByDep(h) == \E i \in DOMAIN crates : h \in Range(missing_lang_items(os, crates[i]))

ExpectedDiag(e) ==
    CASE e.item = "PanicImpl" -> Diag("MissingPanicHandler", None)
      [] e.item = "Oom" -> Diag("MissingAllocErrorHandler", None)
      [] OTHER -> Diag("MissingLangItem", e.name)

Suppressed(h) == h = "Oom" /\ default_alloc_error_handler

\* The hook is missing upstream, mandatory, without local definition, and
\* its diagnostic is not switched off.
Diagnosable(h) ==
    ListedByDep(h) /\ h \notin relaxed /\ h \notin defined /\ ~Suppressed(h)

Recognized(i) == foreign_items[i].lang \in WeakNames

Unrecognized(i) == foreign_items[i].lang # None /\ foreign_items[i].lang \notin WeakNames

Scanned == 1..(idx - 1)

PanicDiagnosedOnce ==
    /\ CountDiag(Diag("MissingPanicHandler", None)) = 1
    /\ CountDiag(Diag("MissingLangItem", "panic_impl")) = 0
    /\ ~Diagnosable("Oom") => CountDiag(Diag("MissingAllocErrorHandler", None)) = 0

\* C1 (as stated): a session that requests only Rlib ends check_crate with no
\* diagnostic at all.
C1_Original ==
    (pc = "done" /\ crate_types \subseteq {"Rlib"}) => diags = <<>>

\* C1 (amended): a session that requests only Rlib ends check_crate with no
\* Missing* diagnostic; its diagnostics are exactly one E0264 per foreign
\* item whose lang name is not a weak lang item.
C1_Amended ==
    (pc = "done" /\ crate_types \subseteq {"Rlib"}) =>
        /\ MissingDiags = {}
        /\ Len(diags) = Cardinality({i \in DOMAIN foreign_items : Unrecognized(i)})
        /\ \A i \in DOMAIN diags : diags[i].kind = "E0264"

C1_Witness ==
    /\ pc = "done" /\ crate_types = {"Rlib"}
    /\ ListedByDep("PanicImpl") /\ "PanicImpl" \notin defined /\ "PanicImpl" \notin relaxed
    /\ \E i \in DOMAIN foreign_items : foreign_items[i].lang = "panic_impl"
    /\ diags = <<Diag("E0264", "not_a_real_hook")>>

\* C2 (as stated): with Executable requested and no unit defining the panic
\* handler, there is exactly one MissingPanicHandler and no other diagnostic
\* for that hook.
C2_Original ==
    (pc = "done" /\ "Executable" \in crate_types /\ NoUnitDefines("PanicImpl"))
        => PanicDiagnosedOnce

\* C2 (amended): the same, provided the panic handler is mandatory and some
\* upstream crate lists it as missing.
C2_Amended ==
    (pc = "done" /\ "Executable" \in crate_types /\ NoUnitDefines("PanicImpl")
       /\ "PanicImpl" \notin relaxed /\ ListedByDep("PanicImpl"))
        => PanicDiagnosedOnce

C2_Witness ==
    /\ pc = "done" /\ "Executable" \in crate_types /\ NoUnitDefines("PanicImpl")
    /\ "PanicImpl" \notin relaxed /\ ListedByDep("PanicImpl")
    /\ Len(crates) = NumDeps
    /\ CountDiag(Diag("MissingPanicHandler", None)) = 1

\* C3: with the gate open, verify emits for every entry of the catalog exactly
\* one diagnostic of the entry's kind when the hook is in the aggregated
\* missing set, mandatory, not locally defined and not the suppressed oom
\* hook, and none otherwise; no other Missing* diagnostic is emitted.
C3_VerifyEmitsOnePerMissingHook ==
    (pc = "done" /\ GateOpen) =>
        /\ \A i \in DOMAIN WEAK_ITEMS_REFS :
              CountDiag(ExpectedDiag(WEAK_ITEMS_REFS[i])) =
                  IF Diagnosable(WEAK_ITEMS_REFS[i].item) THEN 1 ELSE 0
        /\ Cardinality(MissingDiags) =
              Cardinality({i \in DOMAIN WEAK_ITEMS_REFS : Diagnosable(WEAK_ITEMS_REFS[i].item)})

C3_Witness ==
    /\ pc = "done" /\ GateOpen
    /\ CountDiag(Diag("MissingPanicHandler", None)) = 1
    /\ CountDiag(Diag("MissingAllocErrorHandler", None)) = 1
    /\ CountDiag(Diag("MissingLangItem", "eh_personality")) = 1
    /\ Cardinality(MissingDiags) = 3

\* C4 (as stated): with the gate open and the oom hook defined by no unit,
\* there is no diagnostic for it when the flag is on and exactly one
\* MissingAllocErrorHandler when the flag is off.
C4_Original ==
    (pc = "done" /\ GateOpen /\ NoUnitDefines("Oom")) =>
        /\ CountDiag(Diag("MissingLangItem", "oom")) = 0
        /\ CountDiag(Diag("MissingAllocErrorHandler", None)) =
              IF default_alloc_error_handler THEN 0 ELSE 1

\* C4 (amended): with the flag on there is no diagnostic for the oom hook;
\* with the flag off there is exactly one MissingAllocErrorHandler provided
\* the hook is mandatory and some upstream crate lists it as missing.
C4_Amended ==
    (pc = "done" /\ GateOpen /\ NoUnitDefines("Oom")) =>
        /\ CountDiag(Diag("MissingLangItem", "oom")) = 0
        /\ default_alloc_error_handler =>
              CountDiag(Diag("MissingAllocErrorHandler", None)) = 0
        /\ (~default_alloc_error_handler /\ "Oom" \notin relaxed /\ ListedByDep("Oom")) =>
              CountDiag(Diag("MissingAllocErrorHandler", None)) = 1

C4_Witness ==
    /\ pc = "done" /\ GateOpen /\ NoUnitDefines("Oom")
    /\ default_alloc_error_handler /\ "Oom" \notin relaxed /\ ListedByDep("Oom")
    /\ CountDiag(Diag("MissingAllocErrorHandler", None)) = 0

\* C5: each scanned foreign item with an unrecognized lang name has produced
\* exactly one E0264 carrying the name and nothing in items.missing; the scan
\* reaches the end of the list, and every scanned recognized weak item
\* without definition is in items.missing.
C5_UnknownNameReportedScanContinues ==
    /\ \A n \in AttrNames \ (WeakNames \cup {None}) :
          CountDiag(Diag("E0264", n)) =
              Cardinality({i \in Scanned : foreign_items[i].lang = n})
    /\ pc # "inject" =>
          Len(missing) =
              (IF "EhPersonality" \notin defined THEN 1 ELSE 0)
              + (IF os = "emscripten" /\ "EhCatchTypeinfo" \notin defined THEN 1 ELSE 0)
              + Cardinality({i \in Scanned :
                    Recognized(i) /\ WeakGet(foreign_items[i].lang) \notin defined})
    /\ \A i \in Scanned :
          (Recognized(i) /\ WeakGet(foreign_items[i].lang) \notin defined)
              => WeakGet(foreign_items[i].lang) \in Range(missing)
    /\ pc \in {"verify", "done"} => idx = Len(foreign_items) + 1

C5_Witness ==
    /\ pc = "done"
    /\ foreign_items = <<[lang |-> "not_a_real_hook"], [lang |-> "panic_impl"]>>
    /\ "PanicImpl" \notin defined
    /\ "PanicImpl" \in Range(missing)
    /\ CountDiag(Diag("E0264", "not_a_real_hook")) = 1

AfterLocalPhase == pc \in {"verify", "done"}

InjectedOnEmscripten ==
    (os = "emscripten" /\ "EhCatchTypeinfo" \notin defined)
        => "EhCatchTypeinfo" \in Range(missing)

\* C6 (as stated): after the local phase, on emscripten EhCatchTypeinfo is in
\* items.missing whenever it has no definition; on any other target it is
\* never in items.missing.
C6_Original ==
    AfterLocalPhase =>
        /\ InjectedOnEmscripten
        /\ os # "emscripten" => "EhCatchTypeinfo" \notin Range(missing)

\* C6 (amended): on any other target EhCatchTypeinfo is in items.missing
\* exactly when it has no definition and a foreign item of the crate names it.
C6_Amended ==
    AfterLocalPhase =>
        /\ InjectedOnEmscripten
        /\ os # "emscripten" =>
              ("EhCatchTypeinfo" \in Range(missing) <=>
                  /\ "EhCatchTypeinfo" \notin defined
                  /\ \E i \in DOMAIN foreign_items :
                        foreign_items[i].lang = "eh_catch_typeinfo")

C6_Witness ==
    /\ AfterLocalPhase /\ os = "emscripten" /\ "EhCatchTypeinfo" \notin defined
    /\ \A i \in DOMAIN foreign_items : foreign_items[i].lang # "eh_catch_typeinfo"
    /\ "EhCatchTypeinfo" \in Range(missing)

\* C7: validation runs exactly when some requested kind is Executable, Dylib,
\* Cdylib, Staticlib or ProcMacro: then every diagnosable hook is diagnosed,
\* and when every kind is Rlib no Missing* diagnostic exists.
C7_GateOpenIffSomeFinalKind ==
    pc = "done" =>
        /\ GateOpen =>
              \A i \in DOMAIN WEAK_ITEMS_REFS :
                  Diagnosable(WEAK_ITEMS_REFS[i].item)
                      => CountDiag(ExpectedDiag(WEAK_ITEMS_REFS[i])) = 1
        /\ crate_types \subseteq {"Rlib"} => MissingDiags = {}
        /\ MissingDiags # {} => GateOpen

C7_Witness ==
    /\ pc = "done" /\ crate_types = {"Rlib", "Executable"}
    /\ CountDiag(Diag("MissingPanicHandler", None)) = 1

C9_Claim ==
    (pc = "done" /\ GateOpen) =>
        \A i \in DOMAIN WEAK_ITEMS_REFS :
            LET h == WEAK_ITEMS_REFS[i].item IN
            (h \in Range(missing) /\ h \notin relaxed /\ h \notin defined /\ ~Suppressed(h))
                => CountDiag(ExpectedDiag(WEAK_ITEMS_REFS[i])) = 1

\* C10: items.missing never holds the same item twice.
C10_Claim ==
    \A i, j \in DOMAIN missing : i # j => missing[i] # missing[j]

====
